---------------------------- MODULE Spec2Model ----------------------------
(***************************************************************************)
(* Peladas Manager backend: the four tables (jogadores, peladas, partidas, *)
(* gols) and the request handlers of backend/app/routes, one action per    *)
(* handler.  A handler runs on a session of its own and commits or rolls   *)
(* back before it returns, so an action is one whole request.              *)
(*                                                                         *)
(* A nullable value is a set with at most one element: None is {} and a    *)
(* present value v is {v}.  An update payload is a function from the       *)
(* fields the request sets (dict(exclude_unset=True)) to such values.      *)
(***************************************************************************)
EXTENDS Integers, FiniteSets, Sequences, TLC

\* ------------------------------------------------------------------ bounds
\* Largest id a table hands out in the model (a handler that would need a
\* larger one is not taken).
MaxJogadores == 2
MaxPeladas == 2
MaxPartidas == 2
MaxGols == 2
\* The clock runs from 0 to MaxNow, in seconds, in steps of TickSeconds.
MaxNow == 30
TickSeconds == 30
\* Largest clock value of the specification of the match clock.
MaxRelogio == 120
\* Number of database sessions (requests in flight) of the concurrent
\* specification.
MaxSessoes == 2
\* Largest score a match update request writes in the model.
MaxPlacar == 1

\* --------------------------------------------------------------- encodings
None == {}

Some(v) == {v}

Val(o) == CHOOSE v \in o : TRUE

\* An update payload that sets no field.
Unset == <<>>

Max(S) == CHOOSE x \in S : \A y \in S : y <= x

\* ------------------------------------------------------------------- state
VARIABLES
    jogadores,   \* id -> [email, ativo]
    peladas,     \* id -> [status]
    partidas,    \* id -> [pelada_id, status, horario_inicio, horario_fim,
                 \*        gols_time_a, gols_time_b]
    gols,        \* id -> [partida_id, jogador_id, minuto, time]
    now,         \* the wall clock, in seconds
    last,        \* the last request and its response:
                 \* [op, args, code, id]
    sessoes      \* session -> the request in flight in it, if any:
                 \* [args, partida], partida being the row as the session
                 \* loaded it

vars == <<jogadores, peladas, partidas, gols, now, last, sessoes>>

Sessoes == 1..MaxSessoes

\* HTTP status codes of the handlers.
HTTP_200_OK == 200
HTTP_201_CREATED == 201
HTTP_204_NO_CONTENT == 204
HTTP_400_BAD_REQUEST == 400
HTTP_404_NOT_FOUND == 404
\* An exception no handler catches (or a response that fails validation).
HTTP_500_INTERNAL_SERVER_ERROR == 500

\* Input domains.
Emails == {"ana@x", "bia@x", "caio@x"}

Times == {"A", "B", "C"}

StatusPartida == {"agendada", "em_andamento", "finalizada", "cancelada"}

StatusPelada == {"planejada", "confirmada", "em_andamento", "finalizada", "cancelada"}

\* The id the store gives a new row: the table's integer primary key is an
\* SQLite rowid, one more than the largest id in the table.
NextId(tbl) == IF DOMAIN tbl = {} THEN 1 ELSE Max(DOMAIN tbl) + 1

\* tbl with the row id |-> row added.
Insert(tbl, id, row) == [i \in DOMAIN tbl \cup {id} |-> IF i = id THEN row ELSE tbl[i]]

\* tbl without the rows of ids.
Delete(tbl, ids) == [i \in DOMAIN tbl \ ids |-> tbl[i]]

\* setattr(row, field, value) for every field of update_data.
SetAttrs(row, update_data) ==
    [f \in DOMAIN row |-> IF f \in DOMAIN update_data THEN update_data[f] ELSE row[f]]

\* The response of a request; a request leaves the sessions of the other
\* requests alone.
Respond(op, args, code, id) ==
    /\ last' = [op |-> op, args |-> args, code |-> code, id |-> id]
    /\ UNCHANGED sessoes

Init ==
    /\ jogadores = <<>>
    /\ peladas = <<>>
    /\ partidas = <<>>
    /\ gols = <<>>
    /\ now = 0
    /\ last = [op |-> "startup", args |-> <<>>, code |-> HTTP_200_OK, id |-> 0]
    /\ sessoes = [s \in Sessoes |-> None]

\* ------------------------------------------------------------- jogadores
\* A jogadores table whose email column is NOT NULL only.
JogadoresNotNull(tbl) == \A i \in DOMAIN tbl : tbl[i].email # None

\* The jogadores table's constraints at commit: email is NOT NULL and UNIQUE.
JogadoresIntegrity(tbl) ==
    /\ \A i \in DOMAIN tbl : tbl[i].email # None
    /\ \A i, j \in DOMAIN tbl : tbl[i].email = tbl[j].email => i = j

\* An email lookup that sees the active players only.
EmailAtivoJaCadastrado(email) ==
    \E i \in DOMAIN jogadores :
        jogadores[i].email = Some(email) /\ jogadores[i].ativo = Some(TRUE)

\* db.query(Jogador).filter(Jogador.email == jogador.email).first()
EmailJaCadastrado(email) == \E i \in DOMAIN jogadores : jogadores[i].email = Some(email)

criar_jogador(email) ==
    LET args == [email |-> email]
        id == NextId(jogadores)
        new == Insert(jogadores, id, [email |-> Some(email), ativo |-> Some(TRUE)])
    IN  /\ IF EmailJaCadastrado(email)
           THEN /\ Respond("criar_jogador", args, HTTP_400_BAD_REQUEST, 0)
                /\ UNCHANGED jogadores
           ELSE IF ~JogadoresIntegrity(new)
           THEN \* IntegrityError at commit, not caught.
                /\ Respond("criar_jogador", args, HTTP_500_INTERNAL_SERVER_ERROR, 0)
                /\ UNCHANGED jogadores
           ELSE /\ jogadores' = new
                /\ Respond("criar_jogador", args, HTTP_201_CREATED, id)
        /\ UNCHANGED <<peladas, partidas, gols, now>>

\* GET /jogadores/ on the jogadores table db: the ids of the rows after the
\* ativo filter, in id order, paginated.  GET /jogadores/{id} likewise.
RECURSIVE Ordered(_)
Ordered(S) == IF S = {} THEN <<>>
              ELSE LET m == CHOOSE x \in S : \A y \in S : x <= y
                   IN  <<m>> \o Ordered(S \ {m})

listar_jogadores(db, skip, limit, ativo) ==
    LET ids == Ordered({i \in DOMAIN db : ativo => db[i].ativo = Some(TRUE)})
    IN  SubSeq(ids, skip + 1, IF skip + limit < Len(ids) THEN skip + limit ELSE Len(ids))

\* The default page: skip = 0, limit = 100, ativo = True.
DefaultLimit == 100

listar_jogadores_default(db) == listar_jogadores(db, 0, DefaultLimit, TRUE)

obter_jogador(db, jogador_id) ==
    IF jogador_id \in DOMAIN db
    THEN [code |-> HTTP_200_OK, body |-> Some(db[jogador_id])]
    ELSE [code |-> HTTP_404_NOT_FOUND, body |-> None]

atualizar_jogador(jogador_id, update_data) ==
    LET args == [jogador_id |-> jogador_id, update_data |-> update_data]
    IN  /\ IF jogador_id \notin DOMAIN jogadores
           THEN /\ Respond("atualizar_jogador", args, HTTP_404_NOT_FOUND, 0)
                /\ UNCHANGED jogadores
           ELSE LET new == [jogadores EXCEPT ![jogador_id] = SetAttrs(@, update_data)]
                IN  IF ~JogadoresIntegrity(new)
                    THEN \* IntegrityError at commit, not caught: the session is
                         \* closed without a commit.
                         /\ Respond("atualizar_jogador", args, HTTP_500_INTERNAL_SERVER_ERROR, jogador_id)
                         /\ UNCHANGED jogadores
                    ELSE /\ jogadores' = new
                         /\ Respond("atualizar_jogador", args,
                                    IF new[jogador_id].ativo = None
                                    THEN HTTP_500_INTERNAL_SERVER_ERROR
                                    ELSE HTTP_200_OK, jogador_id)
        /\ UNCHANGED <<peladas, partidas, gols, now>>

\* A delete that removes the row instead of flipping ativo.
remover_jogador(jogador_id) ==
    LET args == [jogador_id |-> jogador_id]
    IN  /\ IF jogador_id \notin DOMAIN jogadores
           THEN /\ Respond("deletar_jogador", args, HTTP_404_NOT_FOUND, 0)
                /\ UNCHANGED jogadores
           ELSE /\ jogadores' = Delete(jogadores, {jogador_id})
                /\ Respond("deletar_jogador", args, HTTP_200_OK, jogador_id)
        /\ UNCHANGED <<peladas, partidas, gols, now>>

deletar_jogador(jogador_id) ==
    LET args == [jogador_id |-> jogador_id]
    IN  /\ IF jogador_id \notin DOMAIN jogadores
           THEN /\ Respond("deletar_jogador", args, HTTP_404_NOT_FOUND, 0)
                /\ UNCHANGED jogadores
           ELSE /\ jogadores' = [jogadores EXCEPT ![jogador_id].ativo = Some(FALSE)]
                /\ Respond("deletar_jogador", args, HTTP_200_OK, jogador_id)
        /\ UNCHANGED <<peladas, partidas, gols, now>>

JogadorUpdates ==
    {Unset}
    \cup {[email |-> e] : e \in {Some(x) : x \in Emails} \cup {None}}
    \cup {[ativo |-> a] : a \in {Some(TRUE), Some(FALSE), None}}

\* --------------------------------------------------------------- peladas
criar_pelada ==
    LET id == NextId(peladas)
    IN  /\ peladas' = Insert(peladas, id, [status |-> Some("planejada")])
        /\ Respond("criar_pelada", <<>>, HTTP_201_CREATED, id)
        /\ UNCHANGED <<jogadores, partidas, gols, now>>

\* The peladas table's constraint at commit: status is NOT NULL.
PeladasIntegrity(tbl) == \A i \in DOMAIN tbl : tbl[i].status # None

atualizar_pelada(pelada_id, update_data) ==
    LET args == [pelada_id |-> pelada_id, update_data |-> update_data]
    IN  /\ IF pelada_id \notin DOMAIN peladas
           THEN /\ Respond("atualizar_pelada", args, HTTP_404_NOT_FOUND, 0)
                /\ UNCHANGED peladas
           ELSE LET new == [peladas EXCEPT ![pelada_id] = SetAttrs(@, update_data)]
                IN  IF ~PeladasIntegrity(new)
                    THEN /\ Respond("atualizar_pelada", args, HTTP_400_BAD_REQUEST, pelada_id)
                         /\ UNCHANGED peladas
                    ELSE /\ peladas' = new
                         /\ Respond("atualizar_pelada", args, HTTP_200_OK, pelada_id)
        /\ UNCHANGED <<jogadores, partidas, gols, now>>

\* A Pelada.partidas relationship without a cascade.
PartidasSemCascade(pelada_ids) ==
    {i \in DOMAIN partidas : FALSE /\ partidas[i].pelada_id \in pelada_ids}

\* Pelada.partidas, cascade="all, delete-orphan": the partidas deleted with
\* the peladas of ids.
PartidasDe(pelada_ids) == {i \in DOMAIN partidas : partidas[i].pelada_id \in pelada_ids}

\* A Partida.gols relationship without a cascade.
GolsSemCascade(partida_ids) == {i \in DOMAIN gols : FALSE /\ gols[i].partida_id \in partida_ids}

\* Partida.gols, cascade="all, delete-orphan": the gols deleted with the
\* partidas of ids.
GolsDe(partida_ids) == {i \in DOMAIN gols : gols[i].partida_id \in partida_ids}

deletar_pelada(pelada_id) ==
    LET args == [pelada_id |-> pelada_id]
    IN  /\ IF pelada_id \notin DOMAIN peladas
           THEN /\ Respond("deletar_pelada", args, HTTP_404_NOT_FOUND, 0)
                /\ UNCHANGED <<peladas, partidas, gols>>
           ELSE /\ peladas' = Delete(peladas, {pelada_id})
                /\ partidas' = Delete(partidas, PartidasDe({pelada_id}))
                /\ gols' = Delete(gols, GolsDe(PartidasDe({pelada_id})))
                /\ Respond("deletar_pelada", args, HTTP_204_NO_CONTENT, pelada_id)
        /\ UNCHANGED <<jogadores, now>>

\* -------------------------------------------------------------- partidas
\* Partida(**partida.dict()): the column defaults.
NovaPartida(pelada_id) ==
    [pelada_id |-> pelada_id, status |-> Some("agendada"),
     horario_inicio |-> None, horario_fim |-> None,
     gols_time_a |-> Some(0), gols_time_b |-> Some(0)]

\* A creation that does not look the pelada up.
criar_partida_sem_pelada(pelada_id) ==
    LET args == [pelada_id |-> pelada_id]
        id == NextId(partidas)
    IN  /\ partidas' = Insert(partidas, id, NovaPartida(pelada_id))
        /\ Respond("criar_partida", args, HTTP_201_CREATED, id)
        /\ UNCHANGED <<jogadores, peladas, gols, now>>

criar_partida(pelada_id) ==
    LET args == [pelada_id |-> pelada_id]
        id == NextId(partidas)
    IN  /\ IF pelada_id \notin DOMAIN peladas
           THEN /\ Respond("criar_partida", args, HTTP_404_NOT_FOUND, 0)
                /\ UNCHANGED partidas
           ELSE /\ partidas' = Insert(partidas, id, NovaPartida(pelada_id))
                /\ Respond("criar_partida", args, HTTP_201_CREATED, id)
        /\ UNCHANGED <<jogadores, peladas, gols, now>>

\* The partidas table's constraint at commit: status is NOT NULL (the score
\* and timestamp columns are nullable).
PartidasIntegrity(tbl) == \A i \in DOMAIN tbl : tbl[i].status # None

\* PartidaResponse: gols_time_a and gols_time_b are int, not Optional.
PartidaResponseValida(p) == p.gols_time_a # None /\ p.gols_time_b # None

atualizar_partida(partida_id, update_data) ==
    LET args == [partida_id |-> partida_id, update_data |-> update_data]
    IN  /\ IF partida_id \notin DOMAIN partidas
           THEN /\ Respond("atualizar_partida", args, HTTP_404_NOT_FOUND, 0)
                /\ UNCHANGED partidas
           ELSE LET new == [partidas EXCEPT ![partida_id] = SetAttrs(@, update_data)]
                IN  IF ~PartidasIntegrity(new)
                    THEN /\ Respond("atualizar_partida", args, HTTP_400_BAD_REQUEST, partida_id)
                         /\ UNCHANGED partidas
                    ELSE /\ partidas' = new
                         /\ Respond("atualizar_partida", args,
                                    IF PartidaResponseValida(new[partida_id])
                                    THEN HTTP_200_OK
                                    ELSE HTTP_500_INTERNAL_SERVER_ERROR, partida_id)
        /\ UNCHANGED <<jogadores, peladas, gols, now>>

deletar_partida(partida_id) ==
    LET args == [partida_id |-> partida_id]
    IN  /\ IF partida_id \notin DOMAIN partidas
           THEN /\ Respond("deletar_partida", args, HTTP_404_NOT_FOUND, 0)
                /\ UNCHANGED <<partidas, gols>>
           ELSE /\ partidas' = Delete(partidas, {partida_id})
                /\ gols' = Delete(gols, GolsDe({partida_id}))
                /\ Respond("deletar_partida", args, HTTP_204_NO_CONTENT, partida_id)
        /\ UNCHANGED <<jogadores, peladas, now>>

\* A start that is refused unless the match is scheduled.
iniciar_partida_agendada(partida_id) ==
    LET args == [partida_id |-> partida_id]
    IN  /\ IF partida_id \notin DOMAIN partidas
           THEN /\ Respond("iniciar_partida", args, HTTP_404_NOT_FOUND, 0)
                /\ UNCHANGED partidas
           ELSE IF partidas[partida_id].status # Some("agendada")
           THEN /\ Respond("iniciar_partida", args, HTTP_400_BAD_REQUEST, partida_id)
                /\ UNCHANGED partidas
           ELSE /\ partidas' = [partidas EXCEPT ![partida_id].horario_inicio = Some(now),
                                                ![partida_id].status = Some("em_andamento")]
                /\ Respond("iniciar_partida", args, HTTP_200_OK, partida_id)
        /\ UNCHANGED <<jogadores, peladas, gols, now>>

iniciar_partida(partida_id) ==
    LET args == [partida_id |-> partida_id]
    IN  /\ IF partida_id \notin DOMAIN partidas
           THEN /\ Respond("iniciar_partida", args, HTTP_404_NOT_FOUND, 0)
                /\ UNCHANGED partidas
           ELSE /\ partidas' = [partidas EXCEPT ![partida_id].horario_inicio = Some(now),
                                                ![partida_id].status = Some("em_andamento")]
                /\ Respond("iniciar_partida", args, HTTP_200_OK, partida_id)
        /\ UNCHANGED <<jogadores, peladas, gols, now>>

finalizar_partida(partida_id) ==
    LET args == [partida_id |-> partida_id]
    IN  /\ IF partida_id \notin DOMAIN partidas
           THEN /\ Respond("finalizar_partida", args, HTTP_404_NOT_FOUND, 0)
                /\ UNCHANGED partidas
           ELSE /\ partidas' = [partidas EXCEPT ![partida_id].horario_fim = Some(now),
                                                ![partida_id].status = Some("finalizada")]
                /\ Respond("finalizar_partida", args, HTTP_200_OK, partida_id)
        /\ UNCHANGED <<jogadores, peladas, gols, now>>

\* int(x / 60): Python's int() truncates toward zero.
TruncMinutes(seconds) ==
    IF seconds >= 0 THEN seconds \div 60 ELSE -((-seconds) \div 60)

\* Partida.duracao_minutos.
duracao_minutos(p) ==
    IF p.horario_inicio # None /\ p.horario_fim # None
    THEN TruncMinutes(Val(p.horario_fim) - Val(p.horario_inicio))
    ELSE 0

\* A reset that also clears the score.
CronometroResetPlacar(p, acao) ==
    IF acao = "play"
    THEN [p EXCEPT !.horario_inicio = IF p.horario_inicio = None THEN Some(now) ELSE @,
                   !.status = Some("em_andamento")]
    ELSE IF acao = "pause"
    THEN [p EXCEPT !.status = Some("em_andamento")]
    ELSE IF acao = "reset"
    THEN [p EXCEPT !.horario_inicio = None, !.horario_fim = None,
                   !.status = Some("agendada"),
                   !.gols_time_a = Some(0), !.gols_time_b = Some(0)]
    ELSE p

\* A play that stamps the start timestamp every time.
CronometroPlaySempre(p, acao) ==
    IF acao = "play"
    THEN [p EXCEPT !.horario_inicio = Some(now), !.status = Some("em_andamento")]
    ELSE IF acao = "pause"
    THEN [p EXCEPT !.status = Some("em_andamento")]
    ELSE IF acao = "reset"
    THEN [p EXCEPT !.horario_inicio = None, !.horario_fim = None,
                   !.status = Some("agendada")]
    ELSE p

\* A reset that clears the start timestamp only.
CronometroResetParcial(p, acao) ==
    IF acao = "play"
    THEN [p EXCEPT !.horario_inicio = IF p.horario_inicio = None THEN Some(now) ELSE @,
                   !.status = Some("em_andamento")]
    ELSE IF acao = "pause"
    THEN [p EXCEPT !.status = Some("em_andamento")]
    ELSE IF acao = "reset"
    THEN [p EXCEPT !.horario_inicio = None, !.status = Some("agendada")]
    ELSE p

\* The body of the try block of atualizar_cronometro: the partida after acao.
Cronometro(p, acao) ==
    IF acao = "play"
    THEN [p EXCEPT !.horario_inicio = IF p.horario_inicio = None THEN Some(now) ELSE @,
                   !.status = Some("em_andamento")]
    ELSE IF acao = "pause"
    THEN [p EXCEPT !.status = Some("em_andamento")]
    ELSE IF acao = "reset"
    THEN [p EXCEPT !.horario_inicio = None, !.horario_fim = None,
                   !.status = Some("agendada")]
    ELSE p

CronometroRequest(op, partida_id, acao) ==
    LET args == [partida_id |-> partida_id, acao |-> acao]
    IN  /\ IF partida_id \notin DOMAIN partidas
           THEN /\ Respond(op, args, HTTP_404_NOT_FOUND, 0)
                /\ UNCHANGED partidas
           ELSE /\ partidas' = [partidas EXCEPT ![partida_id] = Cronometro(@, acao)]
                /\ Respond(op, args, HTTP_200_OK, partida_id)
        /\ UNCHANGED <<jogadores, peladas, gols, now>>

atualizar_cronometro(partida_id, acao) ==
    CronometroRequest("atualizar_cronometro", partida_id, acao)

\* A POST form that only checks that the body has an acao.
atualizar_cronometro_post_qualquer(partida_id, acao) ==
    IF acao = None
    THEN /\ Respond("atualizar_cronometro_post", [partida_id |-> partida_id, acao |-> acao],
                    HTTP_400_BAD_REQUEST, 0)
         /\ UNCHANGED <<jogadores, peladas, partidas, gols, now>>
    ELSE CronometroRequest("atualizar_cronometro_post", partida_id, Val(acao))

\* dados.get("acao"): acao is None when the body has no such key.
atualizar_cronometro_post(partida_id, acao) ==
    IF acao = None \/ Val(acao) \notin {"play", "pause", "reset"}
    THEN /\ Respond("atualizar_cronometro_post", [partida_id |-> partida_id, acao |-> acao],
                    HTTP_400_BAD_REQUEST, 0)
         /\ UNCHANGED <<jogadores, peladas, partidas, gols, now>>
    ELSE CronometroRequest("atualizar_cronometro_post", partida_id, Val(acao))

\* ------------------------------------------------------------------ gols
\* A team check that lets every string through.
TimeQualquer(time) == time \in Times

\* if gol.time not in ["A", "B"]
TimeValido(time) == time \in {"A", "B"}

\* The score column a goal of the given team counts in: "A" is gols_time_a,
\* and the else branch takes everything else.
CampoPlacar(time) == IF time = Some("A") THEN "gols_time_a" ELSE "gols_time_b"

\* partida.<campo> += d: None (a TypeError) when the column holds NULL.
AddPlacar(p, campo, d) ==
    IF p[campo] = None THEN None ELSE Some([p EXCEPT ![campo] = Some(Val(@) + d)])

\* The gols table's constraints at commit: minuto and time are NOT NULL.
GolsIntegrity(tbl) == \A i \in DOMAIN tbl : tbl[i].minuto # None /\ tbl[i].time # None

criar_gol(partida_id, jogador_id, minuto, time) ==
    LET args == [partida_id |-> partida_id, jogador_id |-> jogador_id,
                 minuto |-> minuto, time |-> time]
        id == NextId(gols)
    IN  /\ IF partida_id \notin DOMAIN partidas
           THEN /\ Respond("criar_gol", args, HTTP_404_NOT_FOUND, 0)
                /\ UNCHANGED <<partidas, gols>>
           ELSE IF jogador_id \notin DOMAIN jogadores
           THEN /\ Respond("criar_gol", args, HTTP_404_NOT_FOUND, 0)
                /\ UNCHANGED <<partidas, gols>>
           ELSE IF ~TimeValido(time)
           THEN /\ Respond("criar_gol", args, HTTP_400_BAD_REQUEST, 0)
                /\ UNCHANGED <<partidas, gols>>
           ELSE LET p == AddPlacar(partidas[partida_id], CampoPlacar(Some(time)), 1)
                IN  IF p = None
                    THEN /\ Respond("criar_gol", args, HTTP_400_BAD_REQUEST, 0)
                         /\ UNCHANGED <<partidas, gols>>
                    ELSE /\ gols' = Insert(gols, id, [partida_id |-> partida_id,
                                                      jogador_id |-> jogador_id,
                                                      minuto |-> Some(minuto),
                                                      time |-> Some(time)])
                         /\ partidas' = [partidas EXCEPT ![partida_id] = Val(p)]
                         /\ Respond("criar_gol", args, HTTP_201_CREATED, id)
        /\ UNCHANGED <<jogadores, peladas, now>>

\* criar_gol as two steps of a session s that other sessions can interleave
\* with.  The first step is the handler up to the try block: the queries and
\* the check of the team; the session keeps the partida row it loaded.
criar_gol_query(s, partida_id, jogador_id, minuto, time) ==
    LET args == [partida_id |-> partida_id, jogador_id |-> jogador_id,
                 minuto |-> minuto, time |-> time]
    IN  /\ sessoes[s] = None
        /\ IF partida_id \notin DOMAIN partidas \/ jogador_id \notin DOMAIN jogadores
           THEN Respond("criar_gol", args, HTTP_404_NOT_FOUND, 0)
           ELSE IF ~TimeValido(time)
           THEN Respond("criar_gol", args, HTTP_400_BAD_REQUEST, 0)
           ELSE /\ sessoes' = [sessoes EXCEPT ![s] =
                                  Some([args |-> args, partida |-> partidas[partida_id]])]
                /\ UNCHANGED last
        /\ UNCHANGED <<jogadores, peladas, partidas, gols, now>>

\* A commit whose UPDATE increments the stored counter.
criar_gol_commit_incremento(s) ==
    /\ sessoes[s] # None
    /\ LET args == Val(sessoes[s]).args
           campo == CampoPlacar(Some(args.time))
           id == NextId(gols)
       IN  IF args.partida_id \notin DOMAIN partidas
              \/ partidas[args.partida_id][campo] = None
           THEN /\ last' = [op |-> "criar_gol", args |-> args,
                            code |-> HTTP_400_BAD_REQUEST, id |-> 0]
                /\ UNCHANGED <<partidas, gols>>
           ELSE /\ gols' = Insert(gols, id, [partida_id |-> args.partida_id,
                                             jogador_id |-> args.jogador_id,
                                             minuto |-> Some(args.minuto),
                                             time |-> Some(args.time)])
                /\ partidas' = [partidas EXCEPT ![args.partida_id][campo] = Some(Val(@) + 1)]
                /\ last' = [op |-> "criar_gol", args |-> args,
                            code |-> HTTP_201_CREATED, id |-> id]
    /\ sessoes' = [sessoes EXCEPT ![s] = None]
    /\ UNCHANGED <<jogadores, peladas, now>>

\* The second step is the try block: the += 1 on the row the session loaded
\* and the commit, which inserts the gol and writes the changed column of the
\* partida row (no row to write: the commit fails).
criar_gol_commit(s) ==
    /\ sessoes[s] # None
    /\ LET args == Val(sessoes[s]).args
           campo == CampoPlacar(Some(args.time))
           p == AddPlacar(Val(sessoes[s]).partida, campo, 1)
           id == NextId(gols)
       IN  IF p = None \/ args.partida_id \notin DOMAIN partidas
           THEN /\ last' = [op |-> "criar_gol", args |-> args,
                            code |-> HTTP_400_BAD_REQUEST, id |-> 0]
                /\ UNCHANGED <<partidas, gols>>
           ELSE /\ gols' = Insert(gols, id, [partida_id |-> args.partida_id,
                                             jogador_id |-> args.jogador_id,
                                             minuto |-> Some(args.minuto),
                                             time |-> Some(args.time)])
                /\ partidas' = [partidas EXCEPT ![args.partida_id][campo] = Val(p)[campo]]
                /\ last' = [op |-> "criar_gol", args |-> args,
                            code |-> HTTP_201_CREATED, id |-> id]
    /\ sessoes' = [sessoes EXCEPT ![s] = None]
    /\ UNCHANGED <<jogadores, peladas, now>>

\* A move of the score that adds to a counter only for the teams "A" and "B".
MoverPlacarSoAB(p, old_time, new_time) ==
    LET p1 == AddPlacar(p, CampoPlacar(old_time), -1)
    IN  IF p1 = None THEN None
        ELSE IF new_time \in {Some("A"), Some("B")}
        THEN AddPlacar(Val(p1), CampoPlacar(new_time), 1)
        ELSE p1

\* The try block of atualizar_gol up to the commit: the partida of the gol
\* after the score moved from old_time to the gol's new time, None on a
\* TypeError.
MoverPlacar(p, old_time, new_time) ==
    LET p1 == AddPlacar(p, CampoPlacar(old_time), -1)
    IN  IF p1 = None THEN None ELSE AddPlacar(Val(p1), CampoPlacar(new_time), 1)

atualizar_gol(gol_id, update_data) ==
    LET args == [gol_id |-> gol_id, update_data |-> update_data]
    IN  /\ IF gol_id \notin DOMAIN gols
           THEN /\ Respond("atualizar_gol", args, HTTP_404_NOT_FOUND, 0)
                /\ UNCHANGED <<partidas, gols>>
           ELSE LET old_time == gols[gol_id].time
                    gol == SetAttrs(gols[gol_id], update_data)
                    mudou == "time" \in DOMAIN update_data /\ update_data.time # old_time
                    p == IF mudou
                         THEN MoverPlacar(partidas[gol.partida_id], old_time, gol.time)
                         ELSE Some(partidas[gol.partida_id])
                    new == [gols EXCEPT ![gol_id] = gol]
                IN  IF p = None \/ ~GolsIntegrity(new)
                    THEN /\ Respond("atualizar_gol", args, HTTP_400_BAD_REQUEST, gol_id)
                         /\ UNCHANGED <<partidas, gols>>
                    ELSE /\ gols' = new
                         /\ partidas' = [partidas EXCEPT ![gol.partida_id] = Val(p)]
                         /\ Respond("atualizar_gol", args, HTTP_200_OK, gol_id)
        /\ UNCHANGED <<jogadores, peladas, now>>

deletar_gol(gol_id) ==
    LET args == [gol_id |-> gol_id]
    IN  /\ IF gol_id \notin DOMAIN gols
           THEN /\ Respond("deletar_gol", args, HTTP_404_NOT_FOUND, 0)
                /\ UNCHANGED <<partidas, gols>>
           ELSE LET gol == gols[gol_id]
                    p == AddPlacar(partidas[gol.partida_id], CampoPlacar(gol.time), -1)
                IN  IF p = None
                    THEN /\ Respond("deletar_gol", args, HTTP_400_BAD_REQUEST, gol_id)
                         /\ UNCHANGED <<partidas, gols>>
                    ELSE /\ gols' = Delete(gols, {gol_id})
                         /\ partidas' = [partidas EXCEPT ![gol.partida_id] = Val(p)]
                         /\ Respond("deletar_gol", args, HTTP_204_NO_CONTENT, gol_id)
        /\ UNCHANGED <<jogadores, peladas, now>>

\* datetime.now(timezone.utc) - partida.horario_inicio: the first is aware, the
\* second is read back from a DateTime column and is naive; Python raises a
\* TypeError on a difference of an aware and a naive datetime (None here).
DatetimeSub(t1, aware1, t2, aware2) ==
    IF aware1 # aware2 THEN None ELSE Some(t1 - t2)

\* The minute of a quick goal, None when computing it raises.
MinutoRapido(p) ==
    IF p.horario_inicio = None THEN Some(1)
    ELSE LET delta == DatetimeSub(now, TRUE, Val(p.horario_inicio), FALSE)
         IN  IF delta = None THEN None
             ELSE LET m == TruncMinutes(Val(delta))
                  IN  Some(IF m > 1 THEN m ELSE 1)

marcar_gol_rapido(partida_id, jogador_id, time) ==
    LET args == [partida_id |-> partida_id, jogador_id |-> jogador_id, time |-> time]
        id == NextId(gols)
    IN  /\ IF partida_id \notin DOMAIN partidas
           THEN /\ Respond("marcar_gol_rapido", args, HTTP_404_NOT_FOUND, 0)
                /\ UNCHANGED <<partidas, gols>>
           ELSE IF jogador_id \notin DOMAIN jogadores
           THEN /\ Respond("marcar_gol_rapido", args, HTTP_404_NOT_FOUND, 0)
                /\ UNCHANGED <<partidas, gols>>
           ELSE IF ~TimeValido(time)
           THEN /\ Respond("marcar_gol_rapido", args, HTTP_400_BAD_REQUEST, 0)
                /\ UNCHANGED <<partidas, gols>>
           ELSE LET minuto == MinutoRapido(partidas[partida_id])
                    p == AddPlacar(partidas[partida_id], CampoPlacar(Some(time)), 1)
                IN  IF minuto = None \/ p = None
                    THEN /\ Respond("marcar_gol_rapido", args, HTTP_400_BAD_REQUEST, 0)
                         /\ UNCHANGED <<partidas, gols>>
                    ELSE /\ gols' = Insert(gols, id, [partida_id |-> partida_id,
                                                      jogador_id |-> jogador_id,
                                                      minuto |-> minuto,
                                                      time |-> Some(time)])
                         /\ partidas' = [partidas EXCEPT ![partida_id] = Val(p)]
                         /\ Respond("marcar_gol_rapido", args, HTTP_200_OK, id)
        /\ UNCHANGED <<jogadores, peladas, now>>

\* ----------------------------------------------------------------- clock
Tick ==
    /\ now' = now + TickSeconds
    /\ UNCHANGED <<jogadores, peladas, partidas, gols, last, sessoes>>

\* -------------------------------------------------------- specifications
\* Request inputs.
Minutos == {1}

PeladaUpdates == {Unset} \cup {[status |-> x] : x \in {Some("confirmada"), None}}

PlacarUpdates ==
    {[gols_time_a |-> x] : x \in {Some(n) : n \in 0..MaxPlacar} \cup {None}}
    \cup {[gols_time_b |-> x] : x \in {Some(n) : n \in 0..MaxPlacar} \cup {None}}

PartidaUpdates ==
    {Unset} \cup PlacarUpdates \cup {[status |-> x] : x \in {Some("cancelada"), None}}

GolUpdates ==
    {Unset}
    \cup {[time |-> x] : x \in {Some(t) : t \in Times} \cup {None}}
    \cup {[minuto |-> x] : x \in {Some(m) : m \in Minutos} \cup {None}}

Acoes == {"play", "pause", "reset", "stop"}

\* The bounds of a specification: the largest id of each table and the
\* largest clock value.
Dentro(nj, np, nm, ng, t) ==
    /\ DOMAIN jogadores \subseteq 1..nj
    /\ DOMAIN peladas \subseteq 1..np
    /\ DOMAIN partidas \subseteq 1..nm
    /\ DOMAIN gols \subseteq 1..ng
    /\ now <= t

\* The player handlers alone.
DentroJogadores == Dentro(MaxJogadores, 0, 0, 0, 0)

NextJogadores ==
    \/ (\E e \in Emails : criar_jogador(e)) /\ DentroJogadores'
    \/ \E i \in 1..MaxJogadores, u \in JogadorUpdates : atualizar_jogador(i, u)
    \/ \E i \in 1..MaxJogadores : deletar_jogador(i)

SpecJogadores == Init /\ [][NextJogadores]_vars

\* Goal create, update and delete on freshly created matches.
DentroGols == Dentro(1, 1, MaxPartidas, MaxGols, 0)

NextGols ==
    \/ (\E e \in Emails : criar_jogador(e)) /\ DentroGols'
    \/ criar_pelada /\ DentroGols'
    \/ (\E i \in 1..MaxPeladas : criar_partida(i)) /\ DentroGols'
    \/ (\E i \in 1..MaxPartidas, j \in 1..MaxJogadores, m \in Minutos, t \in Times :
          criar_gol(i, j, m, t)) /\ DentroGols'
    \/ \E i \in 1..MaxGols, u \in GolUpdates : atualizar_gol(i, u)
    \/ \E i \in 1..MaxGols : deletar_gol(i)

SpecGols == Init /\ [][NextGols]_vars

\* The same with the quick goal: every handler that writes a goal.
NextGolOps ==
    \/ NextGols
    \/ (\E i \in 1..MaxPartidas, j \in 1..MaxJogadores, t \in Times :
          marcar_gol_rapido(i, j, t)) /\ DentroGols'

SpecGolOps == Init /\ [][NextGolOps]_vars

\* The score ledger: the goal handlers next to the match handlers that write
\* or remove the counters, on one player and one event.
PlacarUpdatesLedger == {[gols_time_a |-> Some(MaxPlacar)], [gols_time_b |-> None]}

NextPlacar ==
    \/ criar_jogador("ana@x") /\ DentroGols'
    \/ criar_pelada /\ DentroGols'
    \/ (\E i \in 1..MaxPeladas : criar_partida(i)) /\ DentroGols'
    \/ \E i \in 1..MaxPartidas, u \in PlacarUpdatesLedger : atualizar_partida(i, u)
    \/ \E i \in 1..MaxPartidas : deletar_partida(i)
    \/ (\E i \in 1..MaxPartidas, j \in 1..MaxJogadores, m \in Minutos, t \in Times :
          criar_gol(i, j, m, t)) /\ DentroGols'
    \/ \E i \in 1..MaxGols, u \in GolUpdates : atualizar_gol(i, u)
    \/ \E i \in 1..MaxGols : deletar_gol(i)

SpecPlacar == Init /\ [][NextPlacar]_vars

\* The handlers that create and delete events, matches and goals, on one
\* player.
DentroCascade == Dentro(1, MaxPeladas, MaxPartidas, MaxGols, 0)

NextCascade ==
    \/ criar_jogador("ana@x") /\ DentroCascade'
    \/ criar_pelada /\ DentroCascade'
    \/ \E i \in 1..MaxPeladas : deletar_pelada(i)
    \/ (\E i \in 1..MaxPeladas : criar_partida(i)) /\ DentroCascade'
    \/ \E i \in 1..MaxPartidas : deletar_partida(i)
    \/ (\E i \in 1..MaxPartidas, m \in Minutos, t \in Times : criar_gol(i, 1, m, t))
          /\ DentroCascade'
    \/ \E i \in 1..MaxGols : deletar_gol(i)

SpecCascade == Init /\ [][NextCascade]_vars

\* The match clock: the handlers that write the status and the timestamps of
\* a match, and the goal handlers that read them, on one match while the clock
\* runs.
DentroCronometro == Dentro(1, 1, 1, 1, MaxRelogio)

StatusUpdates == {[status |-> Some("cancelada")]}

NextCronometro ==
    \/ criar_jogador("ana@x") /\ DentroCronometro'
    \/ criar_pelada /\ DentroCronometro'
    \/ criar_partida(1) /\ DentroCronometro'
    \/ \E u \in StatusUpdates : atualizar_partida(1, u)
    \/ iniciar_partida(1)
    \/ finalizar_partida(1)
    \/ \E a \in Acoes : atualizar_cronometro(1, a)
    \/ \E a \in {Some(x) : x \in Acoes} \cup {None} : atualizar_cronometro_post(1, a)
    \/ (\E t \in Times : marcar_gol_rapido(1, 1, t)) /\ DentroCronometro'
    \/ Tick /\ DentroCronometro'

SpecCronometro == Init /\ [][NextCronometro]_vars

\* Every handler of the API, on the players, one event, one match and one
\* goal, each update handler with a few payloads.
DentroApi == Dentro(MaxJogadores, 1, 1, 1, MaxNow)

EmailsApi == {"ana@x", "bia@x"}

JogadorUpdatesApi == {[ativo |-> Some(TRUE)]}

PeladaUpdatesApi == {[status |-> Some("confirmada")]}

PartidaUpdatesApi == {[gols_time_a |-> Some(MaxPlacar)], [gols_time_b |-> None]}

GolUpdatesApi == {[time |-> Some(t)] : t \in Times}

Next ==
    \/ (\E e \in EmailsApi : criar_jogador(e)) /\ DentroApi'
    \/ \E i \in 1..MaxJogadores, u \in JogadorUpdatesApi : atualizar_jogador(i, u)
    \/ \E i \in 1..MaxJogadores : deletar_jogador(i)
    \/ criar_pelada /\ DentroApi'
    \/ \E u \in PeladaUpdatesApi : atualizar_pelada(1, u)
    \/ deletar_pelada(1)
    \/ criar_partida(1) /\ DentroApi'
    \/ \E u \in PartidaUpdatesApi : atualizar_partida(1, u)
    \/ deletar_partida(1)
    \/ iniciar_partida(1)
    \/ finalizar_partida(1)
    \/ \E a \in Acoes : atualizar_cronometro(1, a)
    \/ \E a \in {Some(x) : x \in Acoes} \cup {None} : atualizar_cronometro_post(1, a)
    \/ (\E m \in Minutos, t \in Times : criar_gol(1, 1, m, t)) /\ DentroApi'
    \/ \E u \in GolUpdatesApi : atualizar_gol(1, u)
    \/ deletar_gol(1)
    \/ (\E t \in Times : marcar_gol_rapido(1, 1, t)) /\ DentroApi'
    \/ Tick /\ DentroApi'

Spec == Init /\ [][Next]_vars

\* The update handlers of the four resources with payloads that the tables'
\* constraints reject at commit.
DentroFalhas == Dentro(MaxJogadores, 1, 1, 1, 0)

EmailUpdates == {[email |-> e] : e \in {Some(x) : x \in EmailsApi} \cup {None}}

StatusNuloUpdates == {[status |-> x] : x \in {Some("cancelada"), None}}

NextFalhas ==
    \/ (\E e \in EmailsApi : criar_jogador(e)) /\ DentroFalhas'
    \/ \E i \in 1..MaxJogadores, u \in EmailUpdates : atualizar_jogador(i, u)
    \/ criar_pelada /\ DentroFalhas'
    \/ \E u \in PeladaUpdates : atualizar_pelada(1, u)
    \/ criar_partida(1) /\ DentroFalhas'
    \/ \E u \in StatusNuloUpdates : atualizar_partida(1, u)
    \/ (\E m \in Minutos, t \in Times : criar_gol(1, 1, m, t)) /\ DentroFalhas'
    \/ \E u \in GolUpdates : atualizar_gol(1, u)

SpecFalhas == Init /\ [][NextFalhas]_vars

\* Goal creations of several sessions on the same match, the steps of one
\* interleaved with the steps of the others.
DentroConcorrente == Dentro(1, 1, 1, MaxGols, 0)

NextConcorrente ==
    \/ criar_jogador("ana@x") /\ DentroConcorrente'
    \/ criar_pelada /\ DentroConcorrente'
    \/ (\E i \in 1..MaxPeladas : criar_partida(i)) /\ DentroConcorrente'
    \/ \E s \in Sessoes, m \in Minutos, t \in Times : criar_gol_query(s, 1, 1, m, t)
    \/ (\E s \in Sessoes : criar_gol_commit(s)) /\ DentroConcorrente'

SpecConcorrente == Init /\ [][NextConcorrente]_vars

\* ------------------------------------------------------------------- app
\* The route modules of app/routes, one per resource.
Routers == {"jogadores", "peladas", "partidas", "gols"}

\* The routers main.py hands to app.include_router, all under prefix "/api".
IncludedRouters == {"jogadores"}

\* GET /api/<grupo>/ on the running application: the listing of the resource
\* when its router is included, and the application's not-found otherwise.
app_get(grupo) ==
    /\ Respond("app_get", [grupo |-> grupo],
               IF grupo \in IncludedRouters THEN HTTP_200_OK ELSE HTTP_404_NOT_FOUND, 0)
    /\ UNCHANGED <<jogadores, peladas, partidas, gols, now>>

\* The running application: the handlers of the included router and the
\* requests to the route groups.
NextApp ==
    \/ (\E e \in Emails : criar_jogador(e)) /\ DentroJogadores'
    \/ \E i \in 1..MaxJogadores, u \in JogadorUpdatesApi : atualizar_jogador(i, u)
    \/ \E i \in 1..MaxJogadores : deletar_jogador(i)
    \/ \E g \in Routers : app_get(g)

SpecApp == Init /\ [][NextApp]_vars

\* ----------------------------------------------------------------- claims
\* The number of stored gols of partida m whose time is t.
ContagemGols(m, t) ==
    Cardinality({g \in DOMAIN gols : gols[g].partida_id = m /\ gols[g].time = Some(t)})

\* C1: after every goal create, update and delete on freshly created matches,
\* gols_time_a is the number of the match's stored goals of team "A" and
\* gols_time_b the number of those of team "B".
C1_PlacarIgualContagem ==
    \A m \in DOMAIN partidas :
        /\ partidas[m].gols_time_a = Some(ContagemGols(m, "A"))
        /\ partidas[m].gols_time_b = Some(ContagemGols(m, "B"))

\* C2: in every state the whole API reaches, the two score counters of every
\* match are the counts of its stored goals by team side.
C2_PlacarIgualContagemApi ==
    \A m \in DOMAIN partidas :
        <<partidas[m].gols_time_a, partidas[m].gols_time_b>>
            = <<Some(ContagemGols(m, "A")), Some(ContagemGols(m, "B"))>>

\* A step that is the request op (a request does not move the clock, and
\* sets last to its own record).
Request(op) == last'.op = op /\ now' = now

\* Whether team side s is the value v of a time column, as a number.
Lado(v, s) == IF v = Some(s) THEN 1 ELSE 0

\* The score column of team side s.
Campo(s) == IF s = "A" THEN "gols_time_a" ELSE "gols_time_b"

\* C3: updating an existing goal with a team different from its current one
\* takes 1 from the counter of the old side and adds 1 to the counter of the
\* new side; an update without a team, or with the team the goal has, leaves
\* both counters as they were.
C3_AtualizarGolMovePlacar ==
    [][(Request("atualizar_gol") /\ last'.args.gol_id \in DOMAIN gols) =>
        LET g == gols[last'.args.gol_id]
            u == last'.args.update_data
            m == g.partida_id
        IN  IF "time" \in DOMAIN u /\ u.time # None /\ u.time # g.time
            THEN \A s \in {"A", "B"} :
                    partidas'[m][Campo(s)] =
                        Some(Val(partidas[m][Campo(s)]) - Lado(g.time, s) + Lado(u.time, s))
            ELSE /\ partidas'[m].gols_time_a = partidas[m].gols_time_a
                 /\ partidas'[m].gols_time_b = partidas[m].gols_time_b
      ]_vars

\* C4: deleting an existing goal takes 1 from the counter of its match on the
\* goal's stored team side and removes that goal row; the other counter, the
\* other goals and the other matches are as they were.
C4_DeletarGolDecrementa ==
    [][(Request("deletar_gol") /\ last'.args.gol_id \in DOMAIN gols) =>
        LET id == last'.args.gol_id
            g == gols[id]
            m == g.partida_id
        IN  /\ gols' = Delete(gols, {id})
            /\ \A s \in {"A", "B"} :
                  partidas'[m][Campo(s)] = Some(Val(partidas[m][Campo(s)]) - Lado(g.time, s))
            /\ \A k \in DOMAIN partidas \ {m} : partidas'[k] = partidas[k]
            /\ DOMAIN partidas' = DOMAIN partidas
            /\ UNCHANGED <<jogadores, peladas>>
      ]_vars

\* C5: goal creation answers not-found when the match does not exist,
\* not-found when the player does not exist and bad-request when the team is
\* neither "A" nor "B" (the checks in that order), and a rejected creation
\* changes no table; an accepted one adds exactly one goal row, with the
\* request's fields, and adds 1 to the counter of the given side of the
\* referenced match and to nothing else.
C5_CriarGol ==
    [][Request("criar_gol") =>
        LET a == last'.args
            id == last'.id
        IN  /\ a.partida_id \notin DOMAIN partidas => last'.code = HTTP_404_NOT_FOUND
            /\ (a.partida_id \in DOMAIN partidas /\ a.jogador_id \notin DOMAIN jogadores)
                  => last'.code = HTTP_404_NOT_FOUND
            /\ (a.partida_id \in DOMAIN partidas /\ a.jogador_id \in DOMAIN jogadores
                  /\ a.time \notin {"A", "B"}) => last'.code = HTTP_400_BAD_REQUEST
            /\ last'.code # HTTP_201_CREATED => UNCHANGED <<jogadores, peladas, partidas, gols>>
            /\ last'.code = HTTP_201_CREATED =>
                  /\ id \notin DOMAIN gols
                  /\ gols' = Insert(gols, id, [partida_id |-> a.partida_id,
                                               jogador_id |-> a.jogador_id,
                                               minuto |-> Some(a.minuto),
                                               time |-> Some(a.time)])
                  /\ a.time \in {"A", "B"}
                  /\ partidas[a.partida_id][Campo(a.time)] # None
                  /\ partidas' = [partidas EXCEPT ![a.partida_id][Campo(a.time)] = Some(Val(@) + 1)]
                  /\ UNCHANGED <<jogadores, peladas>>
      ]_vars

\* A second goal of team "B" was accepted on a match that has two goals.
C5_Witness ==
    /\ last.op = "criar_gol"
    /\ last.code = HTTP_201_CREATED
    /\ last.args.time = "B"
    /\ last.id = 2
    /\ partidas[last.args.partida_id].gols_time_b = Some(2)

\* C6: creating a player with the email of a stored player, active or
\* soft-deleted, answers bad-request and leaves the player table as it was;
\* creating one with an email that is not stored answers created, and
\* get-by-id of the returned id then answers that player with ativo true.
C6_CriarJogadorEmail ==
    [][Request("criar_jogador") =>
        LET e == last'.args.email
        IN  IF \E i \in DOMAIN jogadores : jogadores[i].email = Some(e)
            THEN /\ last'.code = HTTP_400_BAD_REQUEST
                 /\ jogadores' = jogadores
            ELSE /\ last'.code = HTTP_201_CREATED
                 /\ last'.id \notin DOMAIN jogadores
                 /\ obter_jogador(jogadores', last'.id) =
                       [code |-> HTTP_200_OK,
                        body |-> Some([email |-> Some(e), ativo |-> Some(TRUE)])]
      ]_vars

\* A creation was rejected because of the email of a soft-deleted player.
C6_Witness ==
    /\ last.op = "criar_jogador"
    /\ last.code = HTTP_400_BAD_REQUEST
    /\ \E i \in DOMAIN jogadores :
          jogadores[i].email = Some(last.args.email) /\ jogadores[i].ativo = Some(FALSE)

\* C7: after any sequence of player creations, partial updates (email
\* included) and soft-deletes, no two stored player rows have the same email.
C7_EmailUnico ==
    \A i, j \in DOMAIN jogadores : i # j => jogadores[i].email # jogadores[j].email

\* An update tried to give a player the email of another stored player and
\* failed.
C7_Witness ==
    /\ last.op = "atualizar_jogador"
    /\ last.code = HTTP_500_INTERNAL_SERVER_ERROR
    /\ "email" \in DOMAIN last.args.update_data
    /\ \E i \in DOMAIN jogadores \ {last.args.jogador_id} :
          jogadores[i].email = last.args.update_data.email

\* C8: right after a soft-delete of player p, get-by-id of p answers the row
\* with ativo false and the default listing does not contain p; and no step
\* of any handler of the API removes a player row.
C8_SoftDelete ==
    [][/\ DOMAIN jogadores \subseteq DOMAIN jogadores'
       /\ (Request("deletar_jogador") /\ last'.code = HTTP_200_OK) =>
            LET p == last'.args.jogador_id
                r == obter_jogador(jogadores', p)
                l == listar_jogadores_default(jogadores')
            IN  /\ r.code = HTTP_200_OK
                /\ Val(r.body).ativo = Some(FALSE)
                /\ Val(r.body).email = jogadores[p].email
                /\ \A k \in 1..Len(l) : l[k] # p
      ]_vars

\* Player 1 was soft-deleted while player 2 is still listed, and a goal of
\* player 1 is stored.
C8_Witness ==
    /\ last.op = "deletar_jogador"
    /\ last.code = HTTP_200_OK
    /\ last.args.jogador_id = 1
    /\ jogadores[1].ativo = Some(FALSE)
    /\ listar_jogadores_default(jogadores) = <<2>>
    /\ \E g \in DOMAIN gols : gols[g].jogador_id = 1

\* C9: once deletar_pelada has deleted event e, no stored match has
\* pelada_id = e and no stored goal belongs to a match that event had; every
\* other event, every match and goal of the other events and every player is
\* as it was, and no row has been added.
C9_DeletarPeladaCascade ==
    [][(Request("deletar_pelada") /\ last'.code = HTTP_204_NO_CONTENT) =>
        LET e == last'.args.pelada_id
            ms == {m \in DOMAIN partidas : partidas[m].pelada_id = e}
            gs == {g \in DOMAIN gols : gols[g].partida_id \in ms}
        IN  /\ e \notin DOMAIN peladas'
            /\ \A m \in DOMAIN partidas' : partidas'[m].pelada_id # e
            /\ \A g \in DOMAIN gols' : gols'[g].partida_id \notin ms
            /\ DOMAIN peladas' = DOMAIN peladas \ {e}
            /\ \A k \in DOMAIN peladas' : peladas'[k] = peladas[k]
            /\ DOMAIN partidas' = DOMAIN partidas \ ms
            /\ \A m \in DOMAIN partidas' : partidas'[m] = partidas[m]
            /\ DOMAIN gols' = DOMAIN gols \ gs
            /\ \A g \in DOMAIN gols' : gols'[g] = gols[g]
            /\ jogadores' = jogadores
      ]_vars

\* Event 1 was deleted and its match and goal are gone, while event 2, its
\* match and the goal of that match are stored.
C9_Witness ==
    /\ last.op = "deletar_pelada"
    /\ last.code = HTTP_204_NO_CONTENT
    /\ last.args.pelada_id = 1
    /\ DOMAIN peladas = {2}
    /\ DOMAIN partidas = {2}
    /\ partidas[2].pelada_id = 2
    /\ DOMAIN gols = {2}
    /\ gols[2].partida_id = 2

\* C10: match creation for a pelada_id that is no stored event answers
\* not-found and leaves the match table as it was; for a stored event it
\* adds exactly one match, of that event, whose status is scheduled, whose
\* two counters are 0 and whose start and end timestamps are unset.
C10_CriarPartida ==
    [][Request("criar_partida") =>
        LET e == last'.args.pelada_id
            id == last'.id
        IN  IF e \notin DOMAIN peladas
            THEN /\ last'.code = HTTP_404_NOT_FOUND
                 /\ partidas' = partidas
            ELSE /\ last'.code = HTTP_201_CREATED
                 /\ id \notin DOMAIN partidas
                 /\ DOMAIN partidas' = DOMAIN partidas \cup {id}
                 /\ \A k \in DOMAIN partidas : partidas'[k] = partidas[k]
                 /\ partidas'[id].pelada_id = e
                 /\ partidas'[id].status = Some("agendada")
                 /\ partidas'[id].gols_time_a = Some(0)
                 /\ partidas'[id].gols_time_b = Some(0)
                 /\ partidas'[id].horario_inicio = None
                 /\ partidas'[id].horario_fim = None
      ]_vars

\* A second match was created, scheduled and 0-0, next to a match that has a
\* goal.
C10_Witness ==
    /\ last.op = "criar_partida"
    /\ last.code = HTTP_201_CREATED
    /\ last.id = 2
    /\ partidas[2].status = Some("agendada")
    /\ partidas[2].gols_time_a = Some(0)
    /\ partidas[1].gols_time_a = Some(1)

\* A clock-control request with the given acao, through PATCH or through a
\* POST that passed the check of acao, that found its match.
CronometroStep(acao) ==
    /\ \/ Request("atualizar_cronometro")
       \/ Request("atualizar_cronometro_post") /\ last'.code # HTTP_400_BAD_REQUEST
    /\ last'.args.acao = acao
    /\ last'.args.partida_id \in DOMAIN partidas

\* C11: a clock-control 'reset' on an existing match, whatever its status and
\* timestamps, answers OK and leaves the match with no start timestamp, no
\* end timestamp and status scheduled.
C11_Reset ==
    [][CronometroStep("reset") =>
        LET m == last'.args.partida_id
        IN  /\ last'.code = HTTP_200_OK
            /\ partidas'[m].horario_inicio = None
            /\ partidas'[m].horario_fim = None
            /\ partidas'[m].status = Some("agendada")
      ]_vars

\* A reset was answered late on the clock, on a match that has a goal, and
\* the match is scheduled with no timestamps.
C11_Witness ==
    /\ last.op = "atualizar_cronometro"
    /\ last.args.acao = "reset"
    /\ last.code = HTTP_200_OK
    /\ now = MaxRelogio
    /\ partidas[1].status = Some("agendada")
    /\ partidas[1].horario_fim = None
    /\ partidas[1].gols_time_a = Some(1)

\* C12: a clock-control 'pause' on an existing match leaves its status, its
\* start timestamp and its end timestamp as they were, and the match is
\* in-progress after it.
C12_PauseNoOp ==
    [][CronometroStep("pause") =>
        LET m == last'.args.partida_id
        IN  /\ partidas'[m].status = partidas[m].status
            /\ partidas'[m].horario_inicio = partidas[m].horario_inicio
            /\ partidas'[m].horario_fim = partidas[m].horario_fim
            /\ partidas'[m].status = Some("em_andamento")
      ]_vars

\* C13: a clock-control 'play' on an existing match answers OK and sets the
\* status to in-progress whatever it was; the start timestamp becomes the
\* current time when it was unset and is kept when it was set; the end
\* timestamp, the counters and the goals are as they were.
C13_Play ==
    [][CronometroStep("play") =>
        LET m == last'.args.partida_id
        IN  /\ last'.code = HTTP_200_OK
            /\ partidas'[m].status = Some("em_andamento")
            /\ partidas'[m].horario_inicio =
                  IF partidas[m].horario_inicio = None THEN Some(now)
                  ELSE partidas[m].horario_inicio
            /\ partidas'[m].horario_fim = partidas[m].horario_fim
            /\ partidas'[m].gols_time_a = partidas[m].gols_time_a
            /\ partidas'[m].gols_time_b = partidas[m].gols_time_b
            /\ gols' = gols
      ]_vars

\* A play was answered on a match that had been started earlier and finished:
\* the start timestamp is older than the clock and the end timestamp is set.
C13_Witness ==
    /\ last.op = "atualizar_cronometro_post"
    /\ last.code = HTTP_200_OK
    /\ last.args.acao = "play"
    /\ partidas[1].status = Some("em_andamento")
    /\ partidas[1].horario_inicio = Some(0)
    /\ partidas[1].horario_fim # None
    /\ now = MaxRelogio

\* C14: on an existing match of any status, start answers OK, sets the start
\* timestamp to the current time and the status to in-progress, and finish
\* answers OK, sets the end timestamp to the current time and the status to
\* finished; each leaves the other timestamp, the counters and the goals as
\* they were.
C14_IniciarFinalizar ==
    [][/\ (Request("iniciar_partida") /\ last'.args.partida_id \in DOMAIN partidas) =>
            LET m == last'.args.partida_id
            IN  /\ last'.code = HTTP_200_OK
                /\ partidas' = [partidas EXCEPT ![m].horario_inicio = Some(now),
                                                ![m].status = Some("em_andamento")]
                /\ gols' = gols
       /\ (Request("finalizar_partida") /\ last'.args.partida_id \in DOMAIN partidas) =>
            LET m == last'.args.partida_id
            IN  /\ last'.code = HTTP_200_OK
                /\ partidas' = [partidas EXCEPT ![m].horario_fim = Some(now),
                                                ![m].status = Some("finalizada")]
                /\ gols' = gols
      ]_vars

\* A start was answered on a match that had already been finished earlier on
\* the clock and that has a goal.
C14_Witness ==
    /\ last.op = "iniciar_partida"
    /\ last.code = HTTP_200_OK
    /\ partidas[1].horario_inicio = Some(now)
    /\ partidas[1].horario_fim # None
    /\ Val(partidas[1].horario_fim) < now
    /\ partidas[1].status = Some("em_andamento")
    /\ partidas[1].gols_time_a = Some(1)

\* C15: a quick goal on an existing match, with an existing player and team
\* "A" or "B", stores a goal whose minute is max(1, floor((now - start) / 60))
\* when the match has a start timestamp and 1 when it has none.
C15_MinutoRapido ==
    [][(/\ Request("marcar_gol_rapido")
        /\ last'.args.partida_id \in DOMAIN partidas
        /\ last'.args.jogador_id \in DOMAIN jogadores
        /\ last'.args.time \in {"A", "B"}) =>
        LET p == partidas[last'.args.partida_id]
            decorrido == (now - Val(p.horario_inicio)) \div 60
            minuto == IF p.horario_inicio = None THEN 1
                      ELSE IF decorrido > 1 THEN decorrido ELSE 1
        IN  /\ last'.code = HTTP_200_OK
            /\ last'.id \in DOMAIN gols'
            /\ last'.id \notin DOMAIN gols
            /\ gols'[last'.id].minuto = Some(minuto)
      ]_vars

\* C16: the duration reported for a match is end minus start in whole minutes
\* when the match is finished, and 0 whenever its status is not finished.
C16_Duracao ==
    \A m \in DOMAIN partidas :
        LET p == partidas[m]
        IN  IF p.status = Some("finalizada")
            THEN (p.horario_inicio # None /\ p.horario_fim # None) =>
                    duracao_minutos(p) = TruncMinutes(Val(p.horario_fim) - Val(p.horario_inicio))
            ELSE duracao_minutos(p) = 0

\* The row id of table tbl exists and the table's constraints reject the
\* commit of update_data on it.
CommitFalha(tbl, id, update_data, Integrity(_)) ==
    /\ id \in DOMAIN tbl
    /\ ~Integrity([tbl EXCEPT ![id] = SetAttrs(@, update_data)])

\* C17: when the commit of a write request fails on a constraint of its
\* table, in any of the four resources, the four tables after the request are
\* as they were before it and the answer is bad-request.
C17_FalhaDePersistencia ==
    [][(\/ /\ Request("atualizar_jogador")
           /\ CommitFalha(jogadores, last'.args.jogador_id, last'.args.update_data,
                          JogadoresIntegrity)
        \/ /\ Request("atualizar_pelada")
           /\ CommitFalha(peladas, last'.args.pelada_id, last'.args.update_data,
                          PeladasIntegrity)
        \/ /\ Request("atualizar_partida")
           /\ CommitFalha(partidas, last'.args.partida_id, last'.args.update_data,
                          PartidasIntegrity)
        \/ /\ Request("atualizar_gol")
           /\ CommitFalha(gols, last'.args.gol_id, last'.args.update_data, GolsIntegrity))
       => /\ UNCHANGED <<jogadores, peladas, partidas, gols>>
          /\ last'.code = HTTP_400_BAD_REQUEST
      ]_vars

\* C18: goal creations that run concurrently each write the counter they
\* read plus 1 together with their goal row, whatever the counter holds by
\* then; so two of them on the same match and side can both store their row
\* while the counter ends 1 above its old value (the state of C18_Witness).
C18_EscritaDoValorLido ==
    [][\A s \in Sessoes :
        (sessoes[s] # None /\ sessoes'[s] = None /\ last'.code = HTTP_201_CREATED) =>
            LET r == Val(sessoes[s])
                campo == CampoPlacar(Some(r.args.time))
            IN  /\ last'.id \in DOMAIN gols' \ DOMAIN gols
                /\ gols'[last'.id].partida_id = r.args.partida_id
                /\ partidas'[r.args.partida_id][campo] = Some(Val(r.partida[campo]) + 1)
      ]_vars

\* Two goals of team "A" of match 1 are stored, no session is in flight, and
\* the counter of team "A" is 1.
C18_Witness ==
    /\ DOMAIN gols = {1, 2}
    /\ \A g \in DOMAIN gols : gols[g].partida_id = 1 /\ gols[g].time = Some("A")
    /\ \A s \in Sessoes : sessoes[s] = None
    /\ 1 \in DOMAIN partidas
    /\ partidas[1].gols_time_a = Some(1)
    /\ last.op = "criar_gol"
    /\ last.code = HTTP_201_CREATED

\* C19: the application serves a route group for each of the four resources
\* under /api: a request to the listing of any of them is routed to its
\* handler and not answered not-found by the application.
C19_RotasExpostas ==
    last.op = "app_get" => last.code # HTTP_404_NOT_FOUND

\* C20: the team of every stored goal is "A" or "B", after any sequence of
\* goal creations, quick goals, goal updates and goal deletions.
C20_TimeAouB ==
    \A g \in DOMAIN gols : gols[g].time \in {Some("A"), Some("B")}

\* C21: every stored goal references a stored match and a stored player, and
\* every stored match references a stored event, after any sequence of
\* requests to the handlers of the four resources.
C21_Referencias ==
    /\ \A g \in DOMAIN gols :
          gols[g].partida_id \in DOMAIN partidas /\ gols[g].jogador_id \in DOMAIN jogadores
    /\ \A m \in DOMAIN partidas : partidas[m].pelada_id \in DOMAIN peladas

\* The player of a stored goal has just been soft-deleted: the goal still
\* references a stored player, match and event.
C21_Witness ==
    /\ last.op = "deletar_jogador"
    /\ last.code = HTTP_200_OK
    /\ \E g \in DOMAIN gols :
          /\ gols[g].jogador_id = last.args.jogador_id
          /\ jogadores[gols[g].jogador_id].ativo = Some(FALSE)
          /\ partidas[gols[g].partida_id].pelada_id \in DOMAIN peladas

\* C22: when only the goal handlers (create, quick goal, update with any team
\* string, delete) write the counters, one request at a time, both counters
\* of every match are at least 0.
C22_PlacarNaoNegativo ==
    \A m \in DOMAIN partidas :
        /\ partidas[m].gols_time_a # None /\ Val(partidas[m].gols_time_a) >= 0
        /\ partidas[m].gols_time_b # None /\ Val(partidas[m].gols_time_b) >= 0

\* A goal has been moved to team "C" and the match has a second goal.
C22_Witness ==
    /\ last.op = "atualizar_gol"
    /\ last.code = HTTP_200_OK
    /\ gols[last.args.gol_id].time = Some("C")
    /\ Cardinality(DOMAIN gols) = 2
    /\ \A g \in DOMAIN gols : gols[g].partida_id = 1
    /\ partidas[1].gols_time_a = Some(1)
    /\ partidas[1].gols_time_b = Some(1)

\* C23: after any sequence of start, finish and clock-control requests on a
\* freshly created match, a match whose status is in-progress has its start
\* timestamp set.
C23_EmAndamentoTemInicio ==
    \A m \in DOMAIN partidas :
        partidas[m].status = Some("em_andamento") => partidas[m].horario_inicio # None

\* C24: with a clock that never goes backwards, after any sequence of start,
\* finish and clock-control requests the end timestamp of a match is never
\* earlier than its start timestamp when both are set, and the computed
\* duration in minutes is at least 0.
C24_DuracaoNaoNegativa ==
    \A m \in DOMAIN partidas :
        /\ duracao_minutos(partidas[m]) >= 0
        /\ (partidas[m].horario_inicio # None /\ partidas[m].horario_fim # None) =>
              Val(partidas[m].horario_fim) >= Val(partidas[m].horario_inicio)

\* C25: a clock-control 'reset', and likewise 'play' and 'pause', leaves the
\* goals table and both counters of the match as they were.
C25_CronometroMantemPlacar ==
    [][\A a \in {"reset", "play", "pause"} :
        CronometroStep(a) =>
            LET m == last'.args.partida_id
            IN  /\ gols' = gols
                /\ partidas'[m].gols_time_a = partidas[m].gols_time_a
                /\ partidas'[m].gols_time_b = partidas[m].gols_time_b
      ]_vars

\* A reset through POST was answered on a match that has a goal of team "B":
\* the match is scheduled with no timestamps, the goal and the counter are
\* there.
C25_Witness ==
    /\ last.op = "atualizar_cronometro_post"
    /\ last.code = HTTP_200_OK
    /\ last.args.acao = "reset"
    /\ partidas[1].status = Some("agendada")
    /\ partidas[1].horario_inicio = None
    /\ partidas[1].gols_time_b = Some(1)
    /\ \E g \in DOMAIN gols : gols[g].partida_id = 1 /\ gols[g].time = Some("B")
    /\ now > 0

\* C26: a POST clock-control request answered bad-request changes nothing,
\* and a POST that is not answered bad-request carries play, pause or reset;
\* a PATCH with any other command leaves the match table as it was; and a
\* POST with a valid command leaves the match table exactly as the PATCH
\* with that command leaves it.
C26_ComandoInvalido ==
    [][/\ (Request("atualizar_cronometro_post") /\ last'.code = HTTP_400_BAD_REQUEST) =>
            UNCHANGED <<jogadores, peladas, partidas, gols>>
       /\ (Request("atualizar_cronometro_post") /\ last'.code # HTTP_400_BAD_REQUEST) =>
            /\ last'.args.acao \in {"play", "pause", "reset"}
            /\ \/ /\ last'.args.partida_id \notin DOMAIN partidas
                  /\ partidas' = partidas
               \/ /\ last'.args.partida_id \in DOMAIN partidas
                  /\ partidas' = [partidas EXCEPT ![last'.args.partida_id] =
                                     Cronometro(@, last'.args.acao)]
       /\ (Request("atualizar_cronometro") /\ last'.args.acao \notin {"play", "pause", "reset"}) =>
            partidas' = partidas
       /\ (Request("atualizar_cronometro") /\ last'.args.partida_id \in DOMAIN partidas) =>
            partidas' = [partidas EXCEPT ![last'.args.partida_id] =
                            Cronometro(@, last'.args.acao)]
      ]_vars

\* A PATCH with the command "stop" was answered on a match that is in
\* progress since an earlier time.
C26_Witness ==
    /\ last.op = "atualizar_cronometro"
    /\ last.args.acao = "stop"
    /\ last.code = HTTP_200_OK
    /\ partidas[1].status = Some("em_andamento")
    /\ partidas[1].horario_inicio # None
    /\ Val(partidas[1].horario_inicio) < now

=============================================================================
